---- MODULE Spec2Model ----
(***************************************************************************)
(* Model of the host-execution engine of ssd_cell_checking:                *)
(*   credentials_generator.generate_credentials, the batch building of     *)
(*   main.handle_execute.on_execute / main.handle_scan.on_scan, and the    *)
(*   two worker threads main.ExecutionWorker.run / main.ScanWorker.run     *)
(*   with the per-host pipelines (ExecutionWorker.run.worker,              *)
(*   ssh_copy.ssh_copy, scan_utils.scan_host).                             *)
(*                                                                         *)
(* Strings are sequences of atoms: a host name is the sequence of its      *)
(* characters, an outcome text is the sequence of its pieces, '' is <<>>   *)
(* and concatenation is \o.  List indices are 1-based (Python idx + 1).    *)
(***************************************************************************)
EXTENDS Integers, Sequences, FiniteSets, TLC

VARIABLES
    self,          \* the worker object's fields (set by __init__ and on_execute)
    tasks,         \* per future: the position and locals of worker(idx, info)
    run_pc,        \* position of run(): "submit", "collect", "emit", "done", "aborted"
    results,       \* run()'s local list `results`
    i,             \* the enumerate counter of the as_completed loop
    yielded,       \* futures as_completed has already yielded
    progress_log,  \* values passed to progress.emit, in order
    finished_log,  \* lists passed to finished.emit, in order
    num,           \* argument handed to generate_credentials
    creds,         \* what generate_credentials returned for num
    sel,           \* the host selection widgets read by on_execute / on_scan
    ui,            \* what the handler did: status, host_infos, error text
    interruption_requested,  \* QThread's interruption flag of the worker thread
    shown          \* what the on_finished slot did: csv file, message box, table

vars == <<self, tasks, run_pc, results, i, yielded, progress_log, finished_log,
          num, creds, sel, ui, interruption_requested, shown>>

workerVars == <<self, tasks, run_pc, results, i, yielded, progress_log, finished_log>>
inputVars == <<num, creds, sel, ui>>
guiVars == <<interruption_requested, shown>>

(***************************************************************************)
(* Bounds of the model.                                                    *)
(***************************************************************************)
\* longest batch handed to a worker
MaxHosts == 3
\* threads of the pool: main.py passes max_workers=30, the model scales the
\* pool down so that a batch longer than the pool can be explored
max_workers == 2
\* ids handed to generate_credentials are -IdSpan .. IdSpan
IdSpan == 105
\* range fields hold -1, 1, 3 and 8 .. 8 + RangeSpan
RangeSpan == 3

(***************************************************************************)
(* Python's int formatting: str(n) and format(n, "03d").                   *)
(***************************************************************************)
DigitChars == <<"0", "1", "2", "3", "4", "5", "6", "7", "8", "9">>

RECURSIVE Digits(_)
Digits(n) ==
    IF n < 10 THEN <<DigitChars[n + 1]>>
    ELSE Digits(n \div 10) \o <<DigitChars[(n % 10) + 1]>>

Sign(n) == IF n < 0 THEN <<"-">> ELSE <<>>
Abs(n) == IF n < 0 THEN -n ELSE n

\* f"{n}"
Str(n) == Sign(n) \o Digits(Abs(n))

RECURSIVE Zeros(_)
Zeros(k) == IF k <= 0 THEN <<>> ELSE <<"0">> \o Zeros(k - 1)

\* f"{n:03d}": the sign, then zeros up to a total width of 3, then the digits
Format03d(n) ==
    Sign(n) \o Zeros(3 - Len(Sign(n)) - Len(Digits(Abs(n)))) \o Digits(Abs(n))

Chars_css01sth == <<"c", "s", "s", "0", "1", "s", "t", "h">>
Chars_uss01sth == <<"u", "s", "s", "0", "1", "s", "t", "h">>
Chars_ts01 == <<"t", "s", "0", "1">>
Chars_sthTS == <<"s", "t", "h", "@", "T", "S">>

(***************************************************************************)
(* Python's int(text): surrounding blanks are dropped, then an optional    *)
(* sign and at least one digit; anything else raises ValueError.            *)
(***************************************************************************)
IsDigit(c) == \E d \in 1..10 : DigitChars[d] = c
DigitVal(c) == (CHOOSE d \in 1..10 : DigitChars[d] = c) - 1

RECURSIVE Strip(_)
\* text.strip()
Strip(text) ==
    IF text = <<>> THEN <<>>
    ELSE IF Head(text) = " " THEN Strip(Tail(text))
    ELSE IF text[Len(text)] = " " THEN Strip(SubSeq(text, 1, Len(text) - 1))
    ELSE text

RECURSIVE NatOf(_)
NatOf(ds) ==
    IF ds = <<>> THEN 0
    ELSE 10 * NatOf(SubSeq(ds, 1, Len(ds) - 1)) + DigitVal(ds[Len(ds)])

AllDigits(ds) == ds # <<>> /\ \A k \in 1..Len(ds) : IsDigit(ds[k])

\* int(text) for a text: [ok, n]; ok = FALSE stands for ValueError
IntOfText(text) ==
    LET s == Strip(text)
        signed == s # <<>> /\ Head(s) \in {"-", "+"}
        ds == IF signed THEN Tail(s) ELSE s
    IN  IF AllDigits(ds)
        THEN [ok |-> TRUE,
              n |-> IF signed /\ Head(s) = "-" THEN -NatOf(ds) ELSE NatOf(ds)]
        ELSE [ok |-> FALSE, n |-> 0]

\* int(num) of credentials_generator.py line 11: num is an int or a text
int(arg) ==
    IF arg.kind = "int" THEN [ok |-> TRUE, n |-> arg.val] ELSE IntOfText(arg.val)

IntArg(n) == [kind |-> "int", val |-> n]
StrArg(text) == [kind |-> "str", val |-> text]

(***************************************************************************)
(* credentials_generator.generate_credentials                              *)
(***************************************************************************)
\* a plausible slip: every hostname built from the padded form
credentials_for_padded(n) ==
    LET xxx_3digit == Format03d(n)
        username == Chars_uss01sth \o xxx_3digit \o Chars_ts01
        password == Chars_sthTS \o xxx_3digit
        hostname == Chars_css01sth \o xxx_3digit \o Chars_ts01
    IN  IF 10 <= n /\ n <= 99
        THEN << <<hostname, username, password>>, <<hostname, username, password>> >>
        ELSE << <<hostname, username, password>> >>

\* lines 15-35: the list of (hostname, username, password) tuples for the int n
credentials_for(n) ==
    LET xxx_3digit == Format03d(n)
        username == Chars_uss01sth \o xxx_3digit \o Chars_ts01
        password == Chars_sthTS \o xxx_3digit
    IN  IF 1 <= n /\ n <= 9
        THEN << <<Chars_css01sth \o xxx_3digit \o Chars_ts01, username, password>> >>
        ELSE IF 10 <= n /\ n <= 99
        THEN << <<Chars_css01sth \o xxx_3digit \o Chars_ts01, username, password>>,
                <<Chars_css01sth \o Str(n) \o Chars_ts01, username, password>> >>
        ELSE << <<Chars_css01sth \o Str(n) \o Chars_ts01, username, password>> >>

\* lines 10-13 then 15-35: [raised, value]; raised = TRUE stands for ValueError
generate_credentials(arg) ==
    IF int(arg).ok
    THEN [raised |-> FALSE, value |-> credentials_for(int(arg).n)]
    ELSE [raised |-> TRUE, value |-> <<>>]

(***************************************************************************)
(* Values of the workers.                                                  *)
(***************************************************************************)
\* command_utils.BUILTIN_COMMANDS (its keys)
BUILTIN_COMMANDS == {"ssh_copy"}

\* Python's None as a list entry
None == [none |-> TRUE]
\* None where a text is expected (an f-string prints it as None)
NoneText == <<"None">>
\* str(e) of a caught exception
ExcMsg == <<"e">>

Unreachable == <<"Unreachable">>
CopyFailed == <<"Copy failed: ">> \o ExcMsg
FileCopied == <<"File copied to ", "remote_file">>
FolderCopied == <<"Folder copied to ", "remote_path">>
LocalPathMissing == <<"Local path does not exist.">>
SshErr == <<"SSH ERR: ">> \o ExcMsg
ScanSshError == <<"SSH Error: ">> \o ExcMsg
PingError == <<"Ping error: ">> \o ExcMsg

\* what the external calls can do
PingOutcomes == {"true", "false", "raise"}
ExecOutcomes == {"out", "err", "raise"}
ScanExecOutcomes == {"out", "empty", "err", "raise"}

\* main.py line 89: [c.strip() for c in custom_cmd.split('&&') if c.strip()]
\* (custom_cmd is held as the sequence of its &&-separated segments)
RECURSIVE Commands(_)
Commands(segments) ==
    IF segments = <<>> THEN <<>>
    ELSE IF Strip(Head(segments)) # <<>>
         THEN <<Strip(Head(segments))>> \o Commands(Tail(segments))
         ELSE Commands(Tail(segments))

\* '\n'.join(lines)
RECURSIVE Join(_)
Join(lines) ==
    IF lines = <<>> THEN <<>>
    ELSE IF Len(lines) = 1 THEN lines[1]
    ELSE lines[1] \o <<"\n">> \o Join(Tail(lines))

HostInfo(triple) ==
    [hostname |-> triple[1], username |-> triple[2], password |-> triple[3]]

\* the host_infos a worker is constructed with: one entry per descriptor of each id
RECURSIVE BatchOf(_)
BatchOf(ids) ==
    IF ids = <<>> THEN <<>>
    ELSE [k \in 1..Len(credentials_for(Head(ids))) |->
              HostInfo(credentials_for(Head(ids))[k])] \o BatchOf(Tail(ids))

IdLists == {<<5>>, <<23>>, <<5, 23>>, <<23, 5>>, <<23, 23>>}
Batches == {BatchOf(ids) : ids \in {l \in IdLists : Len(BatchOf(l)) <= MaxHosts}}

\* texts of the custom command box (after strip), as &&-separated segments
CustomTexts == { << <<"l", "s">> >>,
                 << <<"l", "s", " ">>, <<" ">>, <<" ", "c", "d">> >>,
                 << <<>>, <<>> >> }
\* the empty text: ''.split('&&') = ['']
EmptyText == << <<>> >>

\* on_execute lines 321-343: do_builtin and do_custom follow from the two inputs,
\* one of them is given, and the source path is read only for a built-in command
ExecSettings ==
    {[kind |-> "exec", do_builtin |-> b, do_custom |-> c # EmptyText,
      builtin_cmd |-> IF b THEN "ssh_copy" ELSE "", custom_cmd |-> c, local_path |-> l] :
        b \in BOOLEAN, c \in CustomTexts \cup {EmptyText},
        l \in {"file", "dir", "emptydir", "missing"}}

ScanSetting ==
    [kind |-> "scan", do_builtin |-> FALSE, do_custom |-> FALSE,
     builtin_cmd |-> "", custom_cmd |-> EmptyText, local_path |-> "missing"]

\* (a folder without files is explored with the copy alone)
Settings ==
    {w \in ExecSettings : /\ w.do_builtin \/ w.do_custom
                          /\ ~w.do_builtin => w.local_path = "missing"
                          /\ w.local_path = "emptydir" => ~w.do_custom}
    \cup {ScanSetting}

\* the settings explored with every batch up to MaxHosts; the others are explored
\* with the one-host and the two-host batch (one step) or the one-host batch (both)
Light(w) ==
    IF w.kind = "scan" THEN TRUE
    ELSE ~w.do_builtin /\ w.custom_cmd = << <<"l", "s">> >>

BatchesFor(w) ==
    IF Light(w) THEN Batches
    ELSE IF w.do_builtin /\ w.do_custom THEN {BatchOf(<<5>>)}
    ELSE {BatchOf(<<5>>), BatchOf(<<23>>)}

WithBatch(w, h) ==
    [kind |-> w.kind, host_infos |-> h, do_builtin |-> w.do_builtin,
     do_custom |-> w.do_custom, builtin_cmd |-> w.builtin_cmd,
     custom_cmd |-> w.custom_cmd, local_path |-> w.local_path]

WorkerConfigs == UNION {{WithBatch(w, h) : h \in BatchesFor(w)} : w \in Settings}

N == Len(self.host_infos)

NewTask ==
    [pc |-> "unsubmitted", probe |-> "none", row |-> None,
     builtin_result |-> NoneText, custom_result |-> NoneText, cmd_results |-> <<>>,
     ssh |-> "none", sftp |-> "none", trace |-> <<>>, caught |-> <<>>, ran |-> <<>>,
     mkdirs |-> {}]

Running ==
    {j \in 1..N : tasks[j].pc \notin {"unsubmitted", "queued", "returned", "raised", "collected"}}
Finished == {j \in 1..N : tasks[j].pc \in {"returned", "raised"}}

WorkerInit ==
    /\ self \in WorkerConfigs
    /\ tasks = [j \in 1..Len(self.host_infos) |-> NewTask]
    /\ run_pc = "submit"
    /\ results = [j \in 1..Len(self.host_infos) |-> None]
    /\ i = 0
    /\ yielded = {}
    /\ progress_log = <<>>
    /\ finished_log = <<>>

(***************************************************************************)
(* The thread pool: ThreadPoolExecutor(max_workers) and executor.submit.   *)
(***************************************************************************)
\* a pool that starts a thread for every submitted task
PoolHasIdleThread_unbounded == TRUE

\* a pool whose threads are not given back when their task has returned
PoolHasIdleThread_usedOnce ==
    Cardinality({j \in 1..N : tasks[j].pc \notin {"unsubmitted", "queued"}}) < max_workers

\* main.py lines 125 and 162: at most max_workers threads run tasks
PoolHasIdleThread == Cardinality(Running) < max_workers

\* main.py lines 126 and 163: the comprehension submits the descriptors in order
Submit(j) ==
    /\ run_pc = "submit"
    /\ tasks[j].pc = "unsubmitted"
    /\ \A k \in 1..(j - 1) : tasks[k].pc # "unsubmitted"
    /\ tasks' = [tasks EXCEPT ![j].pc = "queued"]
    /\ run_pc' = IF j = N THEN "collect" ELSE "submit"
    /\ UNCHANGED <<self, results, i, yielded, progress_log, finished_log, inputVars, guiVars>>

\* a pool thread takes the oldest queued task and enters worker(idx, info):
\* main.py lines 42-47 (row) and 150-154, scan_utils.py lines 24-30 (result)
Start(j) ==
    /\ tasks[j].pc = "queued"
    /\ \A k \in 1..(j - 1) : tasks[k].pc # "queued"
    /\ PoolHasIdleThread
    /\ tasks' = [tasks EXCEPT ![j] =
           [@ EXCEPT !.pc = "ping",
                     !.trace = <<"start">>,
                     !.row = IF self.kind = "exec"
                             THEN [hostname |-> self.host_infos[j].hostname,
                                   pingable |-> FALSE, cmd_result |-> <<>>]
                             ELSE [hostname |-> self.host_infos[j].hostname,
                                   username |-> self.host_infos[j].username,
                                   password |-> self.host_infos[j].password,
                                   pingable |-> FALSE, scan_result |-> <<>>]]]
    /\ UNCHANGED <<self, run_pc, results, i, yielded, progress_log, finished_log, inputVars, guiVars>>

(***************************************************************************)
(* ExecutionWorker.run.worker: ping, built-in copy, custom commands.       *)
(***************************************************************************)
Did(t, event) == [t EXCEPT !.trace = Append(@, event)]
Caught(t, step) == [t EXCEPT !.caught = Append(@, step)]

\* `return idx, row`
Returned(t, row) == [t EXCEPT !.pc = "returned", !.row = row]

\* a worker that reports the last step alone
Combine_lastStep(t) ==
    Returned(t, [t.row EXCEPT !.cmd_result =
        IF self.do_custom THEN t.custom_result
        ELSE IF self.do_builtin THEN t.builtin_result
        ELSE @])

\* main.py lines 112-121
Combine(t) ==
    Returned(t, [t.row EXCEPT !.cmd_result =
        IF self.do_builtin /\ self.do_custom
        THEN t.builtin_result \o <<"\n---\n">> \o t.custom_result
        ELSE IF self.do_builtin THEN t.builtin_result
        ELSE IF self.do_custom THEN t.custom_result
        ELSE @])

\* a worker that gives the host up when its copy did not succeed
EnterCustom_afterGoodCopy(t) ==
    IF self.do_custom /\ t.builtin_result \in {NoneText, FileCopied, FolderCopied}
    THEN [t EXCEPT !.pc = "ssh_connect"]
    ELSE Combine(t)

\* main.py lines 80-83
EnterCustom(t) ==
    IF self.do_custom THEN [t EXCEPT !.pc = "ssh_connect"] ELSE Combine(t)

\* a worker that leaves the copy out
EnterBuiltin_skipped(t) == EnterCustom(t)

\* main.py lines 65-74
EnterBuiltin(t) ==
    IF self.builtin_cmd \in BUILTIN_COMMANDS
    THEN [t EXCEPT !.pc = "copy_connect"]
    ELSE EnterCustom([t EXCEPT !.builtin_result =
                          <<"Unknown built-in command: ", self.builtin_cmd>>])

\* a worker that goes on after a failed probe
PingGate_open(pingable) == FALSE

\* main.py line 59 and scan_utils.py line 40: `if not pingable:` ... return
PingGate(pingable) == ~pingable

\* main.py lines 49-62
Ping(j) ==
    /\ self.kind = "exec"
    /\ tasks[j].pc = "ping"
    /\ \E r \in PingOutcomes :
        LET pingable == (r = "true")
            t0 == Did([tasks[j] EXCEPT !.probe = r], "ping")
            t1 == IF r = "raise" THEN Caught(t0, "ping") ELSE t0
            t2 == [t1 EXCEPT !.row = [@ EXCEPT !.pingable = pingable]]
        IN  tasks' = [tasks EXCEPT ![j] =
                IF PingGate(pingable)
                THEN Returned(t2, [t2.row EXCEPT !.cmd_result = Unreachable])
                ELSE IF self.do_builtin THEN EnterBuiltin(t2) ELSE EnterCustom(t2)]
    /\ UNCHANGED <<self, run_pc, results, i, yielded, progress_log, finished_log, inputVars, guiVars>>

\* ssh_copy.py lines 19-23: SSHClient() and ssh.connect
CopyConnect(j) ==
    /\ tasks[j].pc = "copy_connect"
    /\ \E ok \in BOOLEAN :
        LET t0 == Did(tasks[j], "connect")
        IN  tasks' = [tasks EXCEPT ![j] =
                IF ok
                THEN [t0 EXCEPT !.ssh = "open", !.pc = "copy_sftp"]
                ELSE [Caught(t0, "copy") EXCEPT !.ssh = "created",
                          !.builtin_result = CopyFailed, !.pc = "copy_cleanup"]]
    /\ UNCHANGED <<self, run_pc, results, i, yielded, progress_log, finished_log, inputVars, guiVars>>

\* ssh_copy.py line 25: ssh.open_sftp()
CopyOpenSftp(j) ==
    /\ tasks[j].pc = "copy_sftp"
    /\ \E ok \in BOOLEAN :
        LET t0 == Did(tasks[j], "open_sftp")
        IN  tasks' = [tasks EXCEPT ![j] =
                IF ok
                THEN [t0 EXCEPT !.sftp = "open", !.pc = "copy_mkdir"]
                ELSE [Caught(t0, "copy") EXCEPT
                          !.builtin_result = CopyFailed, !.pc = "copy_cleanup"]]
    /\ UNCHANGED <<self, run_pc, results, i, yielded, progress_log, finished_log, inputVars, guiVars>>

\* ssh_copy.py lines 30-40: the mkdir command; its exception is only printed
CopyMkdir(j) ==
    /\ tasks[j].pc = "copy_mkdir"
    /\ \E ok \in BOOLEAN :
        LET t0 == Did(tasks[j], "exec")
        IN  tasks' = [tasks EXCEPT ![j] =
                [(IF ok THEN t0 ELSE Caught(t0, "mkdir")) EXCEPT !.pc = "copy_upload"]]
    /\ UNCHANGED <<self, run_pc, results, i, yielded, progress_log, finished_log, inputVars, guiVars>>

\* what sftp.mkdir can do: make the directory, raise IOError because it exists,
\* raise IOError because it may not be made (it does not exist afterwards), or
\* raise another exception
MkdirOutcomes == {"ok", "exists", "denied", "error"}

\* ssh_copy.py lines 44-72: one file, a folder holding one file, a folder holding
\* nothing, or no such path; `mkdirs` keeps the IOErrors of sftp.mkdir, and a put
\* into a directory that was not made raises
CopyUpload(j) ==
    /\ tasks[j].pc = "copy_upload"
    /\ \E mk \in MkdirOutcomes, put \in BOOLEAN :
        LET t0 == tasks[j]
            failed(t) == [Caught(t, "copy") EXCEPT !.builtin_result = CopyFailed]
            t1 == CASE self.local_path = "file" ->
                         IF put THEN [Did(t0, "upload") EXCEPT !.builtin_result = FileCopied]
                         ELSE failed(Did(t0, "upload"))
                    [] self.local_path \in {"dir", "emptydir"} ->
                         LET m == IF mk \in {"exists", "denied"}
                                  THEN [Caught(Did(t0, "mkdir"), "mkdir") EXCEPT
                                            !.mkdirs = @ \cup {mk}]
                                  ELSE Did(t0, "mkdir")
                         IN  IF mk = "error" THEN failed(m)
                             ELSE IF self.local_path = "emptydir"
                             THEN [m EXCEPT !.builtin_result = FolderCopied]
                             ELSE IF put /\ mk # "denied"
                             THEN [Did(m, "upload") EXCEPT !.builtin_result = FolderCopied]
                             ELSE failed(Did(m, "upload"))
                    [] OTHER -> [t0 EXCEPT !.builtin_result = LocalPathMissing]
        IN  tasks' = [tasks EXCEPT ![j] = [t1 EXCEPT !.pc = "copy_cleanup"]]
    /\ UNCHANGED <<self, run_pc, results, i, yielded, progress_log, finished_log, inputVars, guiVars>>

\* a cleanup with both close() calls in one try block
CopyCloseSsh_oneTry(t, sftp_raised) ==
    IF sftp_raised THEN t ELSE [Did(t, "close") EXCEPT !.ssh = "closed"]

\* ssh_copy.py lines 84-89: ssh.close() in a try block of its own; "closed" says
\* that close() was called on the handle
CopyCloseSsh(t, sftp_raised) == [Did(t, "close") EXCEPT !.ssh = "closed"]

\* ssh_copy.py lines 76-89 (finally), then main.py lines 70-71 and 80-83; ssh_copy
\* returns a text on every path, the except of main.py 75-77 has nothing to catch
CopyCleanup(j) ==
    /\ tasks[j].pc = "copy_cleanup"
    /\ \E ok_sftp \in BOOLEAN, ok_ssh \in BOOLEAN :
        LET t0 == tasks[j]
            t1 == IF t0.sftp # "open" THEN t0
                  ELSE IF ok_sftp THEN [Did(t0, "close_sftp") EXCEPT !.sftp = "closed"]
                  ELSE Caught([Did(t0, "close_sftp") EXCEPT !.sftp = "closed"], "close")
            t2 == CopyCloseSsh(t1, t0.sftp = "open" /\ ~ok_sftp)
            t3 == IF ok_ssh THEN t2 ELSE Caught(t2, "close")
        IN  tasks' = [tasks EXCEPT ![j] = EnterCustom(t3)]
    /\ UNCHANGED <<self, run_pc, results, i, yielded, progress_log, finished_log, inputVars, guiVars>>

\* a worker without the except clause: the exception leaves worker()
CustomFailed_escapes(t) == [t EXCEPT !.pc = "raised"]

\* a worker that puts the error behind the lines it already has
CustomFailed_keepsLines(t) ==
    [Caught(t, "ssh") EXCEPT !.custom_result = Join(Append(t.cmd_results, SshErr)),
                             !.pc = "ssh_close"]

\* main.py lines 102-104: except Exception as e: custom_result = f'SSH ERR: {e}'
CustomFailed(t) ==
    [Caught(t, "ssh") EXCEPT !.custom_result = SshErr, !.pc = "ssh_close"]

\* main.py lines 84-90 and 102-104: SSHClient(), ssh.connect, the command list
CustomConnect(j) ==
    /\ self.kind = "exec"
    /\ tasks[j].pc = "ssh_connect"
    /\ \E ok \in BOOLEAN :
        LET t0 == Did(tasks[j], "connect")
        IN  tasks' = [tasks EXCEPT ![j] =
                IF ~ok
                THEN CustomFailed([t0 EXCEPT !.ssh = "created"])
                ELSE IF Commands(self.custom_cmd) = <<>>
                THEN [t0 EXCEPT !.ssh = "open", !.cmd_results = <<>>,
                          !.custom_result = Join(<<>>), !.pc = "ssh_close"]
                ELSE [t0 EXCEPT !.ssh = "open", !.cmd_results = <<>>, !.pc = "ssh_exec"]]
    /\ UNCHANGED <<self, run_pc, results, i, yielded, progress_log, finished_log, inputVars, guiVars>>

\* what the two streams of exec_command hold when read
ExecStreams(o) ==
    [stdout |-> IF o = "out" THEN <<"out", " ">> ELSE <<>>,
     stderr |-> IF o = "err" THEN <<"err", " ">> ELSE <<>>]

\* a worker that takes the standard output whatever the standard error holds
CommandLine_stdoutOnly(stdout, stderr) == Strip(stdout)

\* main.py lines 94-99: both streams stripped, `if cmd_err:`
CommandLine(stdout, stderr) ==
    LET cmd_out == Strip(stdout)
        cmd_err == Strip(stderr)
    IN  IF cmd_err # <<>> THEN <<"ERR: ">> \o cmd_err ELSE cmd_out

\* main.py lines 91-104: one pass of `for cmd in cmds`; `ran` keeps the command
\* handed to exec_command and what came of it
CustomExec(j) ==
    /\ self.kind = "exec"
    /\ tasks[j].pc = "ssh_exec"
    /\ \E o \in ExecOutcomes :
        LET cmd == Commands(self.custom_cmd)[Len(tasks[j].cmd_results) + 1]
            t0 == [Did(tasks[j], "exec") EXCEPT !.ran =
                      Append(@, [cmd |-> cmd, raised |-> (o = "raise"),
                                 stdout |-> ExecStreams(o).stdout,
                                 stderr |-> ExecStreams(o).stderr])]
            lines == Append(t0.cmd_results,
                            CommandLine(ExecStreams(o).stdout, ExecStreams(o).stderr))
        IN  tasks' = [tasks EXCEPT ![j] =
                IF o = "raise"
                THEN CustomFailed(t0)
                ELSE IF Len(lines) = Len(Commands(self.custom_cmd))
                THEN [t0 EXCEPT !.cmd_results = lines, !.custom_result = Join(lines),
                          !.pc = "ssh_close"]
                ELSE [t0 EXCEPT !.cmd_results = lines]]
    /\ UNCHANGED <<self, run_pc, results, i, yielded, progress_log, finished_log, inputVars, guiVars>>

\* main.py lines 105-121: ssh.close() in the finally, then the combined row
CustomClose(j) ==
    /\ self.kind = "exec"
    /\ tasks[j].pc = "ssh_close"
    /\ \E ok \in BOOLEAN :
        LET t0 == [Did(tasks[j], "close") EXCEPT !.ssh = "closed"]
        IN  tasks' = [tasks EXCEPT ![j] = Combine(IF ok THEN t0 ELSE Caught(t0, "close"))]
    /\ UNCHANGED <<self, run_pc, results, i, yielded, progress_log, finished_log, inputVars, guiVars>>

(***************************************************************************)
(* ScanWorker.run.worker: scan_utils.scan_host.                            *)
(***************************************************************************)
\* scan_utils.py lines 32-42
ScanPing(j) ==
    /\ self.kind = "scan"
    /\ tasks[j].pc = "ping"
    /\ \E r \in PingOutcomes :
        LET t0 == Did([tasks[j] EXCEPT !.probe = r], "ping")
        IN  tasks' = [tasks EXCEPT ![j] =
                IF r = "raise"
                THEN Returned(Caught(t0, "ping"), [t0.row EXCEPT !.scan_result = PingError])
                ELSE LET t1 == [t0 EXCEPT !.row = [@ EXCEPT !.pingable = (r = "true")]]
                     IN  IF PingGate(r = "true")
                         THEN Returned(t1, [t1.row EXCEPT !.scan_result = Unreachable])
                         ELSE [t1 EXCEPT !.pc = "ssh_connect"]]
    /\ UNCHANGED <<self, run_pc, results, i, yielded, progress_log, finished_log, inputVars, guiVars>>

\* a scan without the except clause: the exception leaves scan_host and worker()
ScanFailed_escapes(t) == [t EXCEPT !.pc = "raised"]

\* a scan that returns from the except clause, past the close
ScanFailed_returns(t) ==
    Returned(Caught(t, "ssh"), [t.row EXCEPT !.scan_result = ScanSshError])

\* scan_utils.py lines 62-63: except Exception as e: scan_result = f'SSH Error: {e}'
ScanFailed(t) ==
    [Caught(t, "ssh") EXCEPT !.row = [@ EXCEPT !.scan_result = ScanSshError],
                             !.pc = "ssh_close"]

\* scan_utils.py lines 45-49 and 62-63
ScanConnect(j) ==
    /\ self.kind = "scan"
    /\ tasks[j].pc = "ssh_connect"
    /\ \E ok \in BOOLEAN :
        LET t0 == Did(tasks[j], "connect")
        IN  tasks' = [tasks EXCEPT ![j] =
                IF ok
                THEN [t0 EXCEPT !.ssh = "open", !.pc = "ssh_exec"]
                ELSE ScanFailed([t0 EXCEPT !.ssh = "created"])]
    /\ UNCHANGED <<self, run_pc, results, i, yielded, progress_log, finished_log, inputVars, guiVars>>

\* scan_utils.py lines 51-63: echo hello {hostname}
ScanExec(j) ==
    /\ self.kind = "scan"
    /\ tasks[j].pc = "ssh_exec"
    /\ \E o \in ScanExecOutcomes :
        LET t0 == Did(tasks[j], "exec")
            text == CASE o = "err" -> <<"Error: ", "err">>
                      [] o = "empty" -> <<>>
                      [] OTHER -> <<"out">>
        IN  tasks' = [tasks EXCEPT ![j] =
                IF o = "raise" THEN ScanFailed(t0)
                ELSE [t0 EXCEPT !.row = [@ EXCEPT !.scan_result = text],
                                !.pc = "ssh_close"]]
    /\ UNCHANGED <<self, run_pc, results, i, yielded, progress_log, finished_log, inputVars, guiVars>>

\* scan_utils.py lines 64-71, main.py line 158
ScanClose(j) ==
    /\ self.kind = "scan"
    /\ tasks[j].pc = "ssh_close"
    /\ \E ok \in BOOLEAN :
        LET t0 == [Did(tasks[j], "close") EXCEPT !.ssh = "closed"]
            t1 == IF ok THEN t0 ELSE Caught(t0, "close")
        IN  tasks' = [tasks EXCEPT ![j] = Returned(t1, t1.row)]
    /\ UNCHANGED <<self, run_pc, results, i, yielded, progress_log, finished_log, inputVars, guiVars>>

(***************************************************************************)
(* run(): the as_completed loop and the finished signal.                   *)
(***************************************************************************)
\* a collector that files the row under the completion count
ResultSlot_byCount(count, idx) == count

\* main.py lines 130 and 167: results[idx] = row
ResultSlot(count, idx) == idx

\* a collector that reports the number of the tasks still to come
ProgressValue_remaining(count) == N - count

\* main.py lines 132 and 169: self.progress.emit(i)
ProgressValue(count) == count

\* a loop that ends with the first future
LoopExhausted_early == yielded # {}

\* main.py lines 128 and 165: as_completed is exhausted once every future was yielded
LoopExhausted == yielded = 1..N

\* main.py lines 128-130 and 165-167: the next completed future, future.result()
\* (which re-raises what the task raised) and the store into results; the future
\* is consumed, and the finished call's locals are no longer kept
Collect(j) ==
    /\ run_pc = "collect"
    /\ j \in Finished \ yielded
    /\ yielded' = yielded \cup {j}
    /\ tasks' = [tasks EXCEPT ![j] = [NewTask EXCEPT !.pc = "collected"]]
    /\ IF tasks[j].pc = "raised"
       THEN /\ run_pc' = "aborted"
            /\ UNCHANGED <<results, i>>
       ELSE /\ run_pc' = "emit"
            /\ i' = i + 1
            /\ results' = [results EXCEPT ![ResultSlot(i + 1, j)] = tasks[j].row]
    /\ UNCHANGED <<self, progress_log, finished_log, inputVars, guiVars>>

\* main.py lines 131-132 and 168-169
EmitProgress ==
    /\ run_pc = "emit"
    /\ progress_log' = Append(progress_log, ProgressValue(i))
    /\ run_pc' = "collect"
    /\ UNCHANGED <<self, tasks, results, i, yielded, finished_log, inputVars, guiVars>>

\* main.py lines 125 (leaving the with block waits for the pool) and 134-135
EmitFinished ==
    /\ run_pc = "collect"
    /\ LoopExhausted
    /\ \A j \in 1..N : tasks[j].pc \in {"returned", "raised", "collected"}
    /\ finished_log' = Append(finished_log, results)
    /\ run_pc' = "done"
    /\ UNCHANGED <<self, tasks, results, i, yielded, progress_log, inputVars, guiVars>>

(***************************************************************************)
(* The on_finished slots of on_execute and on_scan: the csv export         *)
(* (scan_utils.export_scan_to_csv) and the sorted result table.            *)
(***************************************************************************)
\* the characters of the derived names in the order of their code points
CodePoints == <<"-", "0", "1", "2", "3", "4", "5", "6", "7", "8", "9",
                "@", "S", "T", "c", "h", "s", "t", "u">>
ord(c) == CHOOSE k \in 1..Len(CodePoints) : CodePoints[k] = c

\* a < b of two str: the first differing character decides, a proper prefix is less
RECURSIVE StrLess(_, _)
StrLess(a, b) ==
    IF b = <<>> THEN FALSE
    ELSE IF a = <<>> THEN TRUE
    ELSE IF Head(a) # Head(b) THEN ord(Head(a)) < ord(Head(b))
    ELSE StrLess(Tail(a), Tail(b))

\* a sort with ascending=[True, True]
SortsBefore_ascending(a, b) ==
    \/ ~a.pingable /\ b.pingable
    \/ a.pingable = b.pingable /\ StrLess(a.hostname, b.hostname)

\* main.py lines 359 and 464: by=['pingable', 'hostname'], ascending=[False, True]
SortsBefore(a, b) ==
    \/ a.pingable /\ ~b.pingable
    \/ a.pingable = b.pingable /\ StrLess(a.hostname, b.hostname)

\* a row goes behind the rows it does not sort before (the sort is stable)
RECURSIVE Insert(_, _)
Insert(row, rows) ==
    IF rows = <<>> THEN <<row>>
    ELSE IF SortsBefore(row, Head(rows)) THEN <<row>> \o rows
    ELSE <<Head(rows)>> \o Insert(row, Tail(rows))

\* df.sort_values(...): a new frame, the list `results` is not touched
RECURSIVE sort_values(_)
sort_values(rows) ==
    IF rows = <<>> THEN <<>>
    ELSE Insert(rows[Len(rows)], sort_values(SubSeq(rows, 1, Len(rows) - 1)))

YesNo(b) == IF b THEN "Yes" ELSE "No"

\* main.py lines 362-366 and 467-471: one table row per row of the sorted frame
TableRows(df) ==
    [k \in 1..Len(df) |->
        [hostname |-> df[k].hostname, pingable |-> YesNo(df[k].pingable),
         result |-> IF self.kind = "scan" THEN df[k].scan_result ELSE df[k].cmd_result]]

\* the pieces an outcome text can begin with that begin with `prefix`
Beginning(prefix) ==
    CASE prefix = "SSH Error:" -> {"SSH Error: "}
      [] prefix = "Error:" -> {"Error: "}
      [] OTHER -> {}

\* text.startswith(prefix)
startswith(text, prefix) == text # <<>> /\ Head(text) \in Beginning(prefix)

\* an export that takes any output of a pingable host for a working session
ssh_able_anyText(result) ==
    YesNo(/\ result.pingable
          /\ result.scan_result # <<>>
          /\ result.scan_result # Unreachable)

\* scan_utils.py lines 102-107
ssh_able(result) ==
    YesNo(/\ result.pingable
          /\ result.scan_result # <<>>
          /\ ~startswith(result.scan_result, "SSH Error:")
          /\ ~startswith(result.scan_result, "Error:")
          /\ result.scan_result # Unreachable)

CsvHeader == <<"host", "username", "password", "pingable", "ssh_able">>

\* scan_utils.py lines 96-109
CsvRow(result) ==
    <<result.hostname, result.username, result.password,
      YesNo(result.pingable), ssh_able(result)>>

\* an export of the sorted view instead of the list handed over
CsvRows_sorted(scan_results) ==
    <<CsvHeader>> \o [k \in 1..Len(scan_results) |-> CsvRow(sort_values(scan_results)[k])]

\* scan_utils.py lines 92-109: the header, then one row per result in list order
CsvRows(scan_results) ==
    <<CsvHeader>> \o [k \in 1..Len(scan_results) |-> CsvRow(scan_results[k])]

\* what the file system does to one export of n results: nothing, open() raises,
\* a writerow raises after `rows` rows, or the closing flush raises
ExportRuns(n) ==
    {[raises |-> "no", rows |-> n + 1], [raises |-> "open", rows |-> 0],
     [raises |-> "close", rows |-> n + 1]}
    \cup {[raises |-> "writerow", rows |-> k] : k \in 0..n}

\* an export without the except clause
ExportFailed_escapes(file) == [raised |-> TRUE, path |-> None, file |-> file]

\* f'scan_results_{timestamp}.csv'
CsvPath == [name |-> "scan_results.csv"]

\* scan_utils.py lines 112-114: except Exception: ... return None
ExportFailed(file) == [raised |-> FALSE, path |-> None, file |-> file]

\* scan_utils.py lines 84-114; `file` holds the lines on disk afterwards, none when
\* there is no file
export_scan_to_csv(scan_results, io) ==
    IF io.raises = "no"
    THEN [raised |-> FALSE, path |-> CsvPath, file |-> CsvRows(scan_results)]
    ELSE ExportFailed(IF io.raises = "open" THEN <<>>
                      ELSE SubSeq(CsvRows(scan_results), 1, io.rows))

\* main.py lines 355-373: the slot of ExecutionWorker.finished
OnExecuteFinished ==
    /\ self.kind = "exec"
    /\ finished_log # <<>>
    /\ shown = None
    /\ shown' = [raised |-> FALSE, io |-> "none", csv_path |-> None, file |-> <<>>,
                 box |-> "none",
                 table |-> TableRows(sort_values(finished_log[1])),
                 progressBar |-> N]
    /\ UNCHANGED <<workerVars, inputVars, interruption_requested>>

\* main.py lines 448-478: the slot of ScanWorker.finished
OnScanFinished ==
    /\ self.kind = "scan"
    /\ finished_log # <<>>
    /\ shown = None
    /\ \E io \in ExportRuns(Len(finished_log[1])) :
        LET e == export_scan_to_csv(finished_log[1], io)
        IN  shown' =
              IF e.raised
              THEN [raised |-> TRUE, io |-> io.raises, csv_path |-> None,
                    file |-> e.file, box |-> "none",
                    table |-> <<>>, progressBar |-> 0]
              ELSE [raised |-> FALSE, io |-> io.raises, csv_path |-> e.path,
                    file |-> e.file,
                    box |-> IF e.path # None THEN "information" ELSE "warning",
                    table |-> TableRows(sort_values(finished_log[1])),
                    progressBar |-> N]
    /\ UNCHANGED <<workerVars, inputVars, interruption_requested>>

InputIdle ==
    /\ num = IntArg(0)
    /\ creds = None
    /\ sel = None
    /\ ui = None

\* no interruption requested, the finished signal not yet delivered
GuiIdle ==
    /\ interruption_requested = FALSE
    /\ shown = None

Init == WorkerInit /\ InputIdle /\ GuiIdle

Next ==
    \/ \E j \in 1..N : Submit(j)
    \/ \E j \in 1..N : Start(j)
    \/ \E j \in 1..N : Ping(j)
    \/ \E j \in 1..N : CopyConnect(j)
    \/ \E j \in 1..N : CopyOpenSftp(j)
    \/ \E j \in 1..N : CopyMkdir(j)
    \/ \E j \in 1..N : CopyUpload(j)
    \/ \E j \in 1..N : CopyCleanup(j)
    \/ \E j \in 1..N : CustomConnect(j)
    \/ \E j \in 1..N : CustomExec(j)
    \/ \E j \in 1..N : CustomClose(j)
    \/ \E j \in 1..N : ScanPing(j)
    \/ \E j \in 1..N : ScanConnect(j)
    \/ \E j \in 1..N : ScanExec(j)
    \/ \E j \in 1..N : ScanClose(j)
    \/ \E j \in 1..N : Collect(j)
    \/ EmitProgress
    \/ EmitFinished
    \/ OnExecuteFinished
    \/ OnScanFinished

Spec == Init /\ [][Next]_vars

(***************************************************************************)
(* Stopping a run.  ExecutionWorker and ScanWorker add no stop method or   *)
(* flag of their own; what a holder of the thread object can signal is     *)
(* QThread's requestInterruption(), which sets the flag of a running       *)
(* thread.  run() and worker() never read it.                              *)
(***************************************************************************)
\* main.py lines 24 and 138: class ExecutionWorker(QThread), class ScanWorker(QThread)
RequestInterruption ==
    /\ run_pc \in {"submit", "collect", "emit"}
    /\ ~interruption_requested
    /\ interruption_requested' = TRUE
    /\ UNCHANGED <<workerVars, inputVars, shown>>

NextStop == Next \/ RequestInterruption

SpecStop == Init /\ [][NextStop]_vars

(***************************************************************************)
(* Progress.  The pool threads, the run() thread and the GUI thread are    *)
(* scheduled by the operating system, and every probe, connect, exec and   *)
(* transfer call returns or raises: a step that can be taken is taken.     *)
(***************************************************************************)
SpecLive == Init /\ [][Next]_vars /\ WF_vars(Next)

(***************************************************************************)
(* Host selection of on_execute (main.py 284-319) and on_scan (401-436),   *)
(* the same code in both handlers.                                         *)
(***************************************************************************)
\* hostname, username, password = <value>: unpacking into three names
Unpacks3(value) == Len(value) = 3

\* the loop bodies of lines 302-304, 314-316, 419-421, 431-433: an exception
\* (ValueError of int() or of the unpacking) leaves the loop and the handler
RECURSIVE AppendHosts(_, _)
AppendHosts(args, host_infos) ==
    IF args = <<>> THEN [raised |-> FALSE, host_infos |-> host_infos]
    ELSE LET r == generate_credentials(Head(args))
         IN  IF r.raised \/ ~Unpacks3(r.value)
             THEN [raised |-> TRUE, host_infos |-> host_infos]
             ELSE AppendHosts(Tail(args),
                      Append(host_infos, [hostname |-> r.value[1],
                                          username |-> r.value[2],
                                          password |-> r.value[3]]))

\* range(start, end + 1)
RangeArgs(start, end) == [k \in 1..(end - start + 1) |-> IntArg(start + k - 1)]

\* [item.strip() for item in list_text.split(',') if item.strip()]
RECURSIVE Items(_)
Items(parts) ==
    IF parts = <<>> THEN <<>>
    ELSE IF Strip(Head(parts)) # <<>>
         THEN <<StrArg(Strip(Head(parts)))>> \o Items(Tail(parts))
         ELSE Items(Tail(parts))

\* list_text.strip() is empty (list_edit is held as its comma-separated parts)
BlankList(parts) == Len(parts) = 1 /\ Strip(parts[1]) = <<>>

\* a handler that builds the range without comparing its ends
RangeReversed_unchecked(start, end) == FALSE

\* main.py lines 299 and 416: `if start > end:`
RangeReversed(start, end) == start > end

InputError(message, clear) ==
    [status |-> "input_error", message |-> message, clear |-> clear, host_infos |-> <<>>]
Built(b) ==
    [status |-> IF b.raised THEN "raised" ELSE "ok", message |-> "",
     clear |-> {}, host_infos |-> b.host_infos]

HostSelection(s) ==
    IF s.radio = "range"
    THEN LET from_text == Strip(s.range_from)
             to_text == Strip(s.range_to)
             clear == (IF from_text = <<>> THEN {"range_from"} ELSE {})
                      \cup (IF to_text = <<>> THEN {"range_to"} ELSE {})
         IN  IF clear # {} THEN InputError("Range fields cannot be empty!", clear)
             ELSE IF ~IntOfText(from_text).ok \/ ~IntOfText(to_text).ok
             THEN Built([raised |-> TRUE, host_infos |-> <<>>])
             ELSE IF RangeReversed(IntOfText(from_text).n, IntOfText(to_text).n)
             THEN InputError("From value must be less than or equal to To value!",
                             {"range_from", "range_to"})
             ELSE Built(AppendHosts(RangeArgs(IntOfText(from_text).n,
                                              IntOfText(to_text).n), <<>>))
    ELSE IF s.radio = "list"
    THEN IF BlankList(s.list_edit)
         THEN InputError("List field cannot be empty!", {"list_edit"})
         ELSE IF Items(s.list_edit) = <<>>
         THEN InputError("List must contain at least one number!", {"list_edit"})
         ELSE Built(AppendHosts(Items(s.list_edit), <<>>))
    ELSE InputError("No radio button selected!", {})

\* show_error: the named fields are cleared
Cleared(s, clear) ==
    [s EXCEPT !.range_from = IF "range_from" \in clear THEN <<>> ELSE @,
              !.range_to = IF "range_to" \in clear THEN <<>> ELSE @,
              !.list_edit = IF "list_edit" \in clear THEN EmptyText ELSE @,
              !.path_from_edit = IF "path_from_edit" \in clear THEN "" ELSE @]

\* main.py lines 278-382
on_execute(s) ==
    LET h == HostSelection(s)
        do_builtin == s.command_combo \in BUILTIN_COMMANDS
        do_custom == s.cmd_prompt # EmptyText
        idle == [handler |-> "execute", status |-> h.status, message |-> h.message,
                 clear |-> h.clear, host_infos |-> h.host_infos, worker |-> None]
    IN  IF h.status # "ok" THEN idle
        ELSE IF ~do_builtin /\ ~do_custom
        THEN [idle EXCEPT !.status = "input_error",
                  !.message = "Please provide a built-in command, a custom command, or both!"]
        ELSE IF do_builtin /\ s.path_from_edit = ""
        THEN [idle EXCEPT !.status = "input_error",
                  !.message = "Source path cannot be empty!",
                  !.clear = {"path_from_edit"}]
        ELSE [idle EXCEPT !.status = "started",
                  !.worker = [kind |-> "exec", host_infos |-> h.host_infos,
                              do_builtin |-> do_builtin, do_custom |-> do_custom,
                              builtin_cmd |-> s.command_combo, custom_cmd |-> s.cmd_prompt,
                              local_path |-> IF do_builtin THEN s.path_from_edit
                                             ELSE "missing"]]

\* main.py lines 394-486
on_scan(s) ==
    LET h == HostSelection(s)
        idle == [handler |-> "scan", status |-> h.status, message |-> h.message,
                 clear |-> h.clear, host_infos |-> h.host_infos, worker |-> None]
    IN  IF h.status # "ok" THEN idle
        ELSE [idle EXCEPT !.status = "started",
                  !.worker = WithBatch(ScanSetting, h.host_infos)]

\* the Execute button
OnExecute ==
    /\ sel # None
    /\ ui = None
    /\ ui' = on_execute(sel)
    /\ sel' = Cleared(sel, on_execute(sel).clear)
    /\ UNCHANGED <<num, creds, workerVars, guiVars>>

\* the Scan button
OnScan ==
    /\ sel # None
    /\ ui = None
    /\ ui' = on_scan(sel)
    /\ sel' = Cleared(sel, on_scan(sel).clear)
    /\ UNCHANGED <<num, creds, workerVars, guiVars>>

\* a call of generate_credentials(num)
Derive ==
    /\ creds = None
    /\ creds' = generate_credentials(num)
    /\ UNCHANGED <<num, sel, ui, workerVars, guiVars>>

\* the texts a range field can hold
RangeTexts ==
    {Str(n) : n \in {-1, 1, 3} \cup (8 .. (8 + RangeSpan))} \cup {<<>>, <<"-">>, <<" ", "9">>}
\* the texts the list field can hold, comma-separated parts
ListParts == {<<"5">>, <<" ", "2", "3">>, <<"1", "2", "0">>, <<"a", "b">>, <<" ">>}
ListTexts == {<<a>> : a \in ListParts \cup {<<>>}} \cup {<<a, b>> : a, b \in ListParts}

Selections ==
    {[radio |-> "range", range_from |-> a, range_to |-> b, list_edit |-> EmptyText,
      command_combo |-> c.combo, cmd_prompt |-> c.cmd, path_from_edit |-> c.path] :
        a \in RangeTexts, b \in RangeTexts,
        c \in {[combo |-> "ssh_copy", cmd |-> EmptyText, path |-> "file"]}}
    \cup
    {[radio |-> r, range_from |-> <<>>, range_to |-> <<>>, list_edit |-> l,
      command_combo |-> c.combo, cmd_prompt |-> c.cmd, path_from_edit |-> c.path] :
        r \in {"list", "none"}, l \in ListTexts,
        c \in {[combo |-> "ssh_copy", cmd |-> EmptyText, path |-> "file"],
               [combo |-> "ssh_copy", cmd |-> << <<"l", "s">> >>, path |-> ""],
               [combo |-> "", cmd |-> << <<"l", "s">> >>, path |-> ""],
               [combo |-> "", cmd |-> EmptyText, path |-> ""]}}

Args == {IntArg(n) : n \in (-IdSpan)..IdSpan}
        \cup {StrArg(t) : t \in ListParts \cup {<<>>, <<"+", "7">>, <<"-", "4", "2">>}}

WorkerIdle ==
    /\ self = WithBatch(ScanSetting, <<>>)
    /\ tasks = <<>>
    /\ run_pc = "idle"
    /\ results = <<>>
    /\ i = 0
    /\ yielded = {}
    /\ progress_log = <<>>
    /\ finished_log = <<>>

InitInput ==
    /\ WorkerIdle
    /\ GuiIdle
    /\ creds = None
    /\ ui = None
    /\ \/ num \in Args /\ sel = None
       \/ num = IntArg(0) /\ sel \in Selections

NextInput ==
    \/ Derive
    \/ OnExecute
    \/ OnScan

SpecInput == InitInput /\ [][NextInput]_vars

(***************************************************************************)
(* Properties.                                                             *)
(***************************************************************************)
\* the outcome text of a row of either workflow
Outcome(row) == IF self.kind = "scan" THEN row.scan_result ELSE row.cmd_result
Populated == {k \in 1..N : results[k] # None}
Contains(text, piece) == \E k \in 1..Len(text) : text[k] = piece
Has(trace, events) == \E k \in 1..Len(trace) : trace[k] \in events
Count(trace, event) == Cardinality({k \in 1..Len(trace) : trace[k] = event})
UpTo(n) == [k \in 1..n |-> k]
Visible == {j \in 1..N : tasks[j].pc \notin {"unsubmitted", "queued", "collected"}}

\* C1: every descriptor is taken up by one task, started and probed once, the run
\* never breaks off, and the list handed to finished has N entries, none of them None
C1_OneResultPerDescriptor ==
    /\ DOMAIN tasks = 1..N
    /\ \A j \in Visible : Count(tasks[j].trace, "start") = 1
                          /\ Count(tasks[j].trace, "ping") <= 1
    /\ run_pc \in {"submit", "collect", "emit", "done"}
    /\ \A f \in 1..Len(finished_log) :
          /\ Len(finished_log[f]) = N
          /\ \A k \in 1..N : finished_log[f][k] # None
          /\ \A j \in 1..N : tasks[j].pc = "collected"

\* a finished run over the longest batch with a reachable and an unreachable host
C1_Witness ==
    /\ finished_log # <<>>
    /\ N = MaxHosts
    /\ \E k \in 1..N : ~finished_log[1][k].pingable
    /\ \E k \in 1..N : finished_log[1][k].pingable

\* C2: slot k holds the row of descriptor k, a slot is written once, and a write
\* goes to the slot of the future that completed and to no other
C2_SlotOfOwnIndex ==
    /\ [](\A k \in Populated : /\ results[k].hostname = self.host_infos[k].hostname
                               /\ k \in yielded)
    /\ [][\A k \in 1..N : results'[k] # results[k] =>
               /\ results[k] = None
               /\ tasks[k].pc = "returned"
               /\ results'[k] = tasks[k].row
               /\ yielded' = yielded \cup {k}
               /\ k \notin yielded]_vars

\* a later descriptor's row is stored while an earlier slot is still empty
C2_Witness ==
    /\ N = MaxHosts
    /\ results[N] # None
    /\ results[1] = None
    /\ results[N].hostname # self.host_infos[1].hostname

SessionEvents == {"connect", "open_sftp", "exec", "mkdir", "upload", "close_sftp", "close"}

\* C4: a task whose probe did not answer true makes no session call at all, and
\* a task that made one had a probe that answered true
C4_NoSessionWithoutPing ==
    \A j \in Visible :
        /\ tasks[j].probe # "true" => ~Has(tasks[j].trace, SessionEvents)
        /\ tasks[j].probe # "true" => tasks[j].ssh = "none" /\ tasks[j].sftp = "none"
        /\ tasks[j].pc \notin {"ping", "returned"} => tasks[j].probe = "true"

\* a returned task whose probe raised, beside one whose probe answered false
C4_Witness ==
    \E j, k \in 1..N :
        /\ tasks[j].pc = "returned" /\ tasks[j].probe = "raise"
        /\ tasks[k].pc = "returned" /\ tasks[k].probe = "false"
        /\ ~Has(tasks[j].trace, SessionEvents)

\* the run is not broken off and what it delivers is complete
Isolated ==
    /\ \A j \in 1..N : tasks[j].pc # "raised"
    /\ run_pc # "aborted"
    /\ \A f \in 1..Len(finished_log) : \A k \in 1..N : finished_log[f][k] # None

\* the outcome text shows the exception caught in `step`
Shown(step, text) ==
    CASE step = "ping" -> text = Unreachable \/ Contains(text, "Ping error: ")
      [] step = "copy" -> Contains(text, "Copy failed: ")
      [] step = "ssh" -> Contains(text, "SSH ERR: ") \/ Contains(text, "SSH Error: ")
      [] OTHER -> FALSE

\* C5 as stated: every exception caught in a task shows in that host's outcome
\* text, and the run is not broken off
C5_EveryExceptionInOutcome ==
    /\ Isolated
    /\ \A j \in 1..N : tasks[j].pc = "returned" =>
          \A c \in 1..Len(tasks[j].caught) :
              Shown(tasks[j].caught[c], Outcome(tasks[j].row))

\* C5 amended: an exception of the probe, of the transfer and of connect or exec
\* shows in the outcome text, one of close() or of a directory creation is dropped,
\* and in no case is the run broken off or a sibling's row missing
C5_ExceptionsIsolated ==
    /\ Isolated
    /\ \A j \in 1..N : tasks[j].pc = "returned" =>
          \A c \in 1..Len(tasks[j].caught) :
              \/ tasks[j].caught[c] \in {"close", "mkdir"}
              \/ Shown(tasks[j].caught[c], Outcome(tasks[j].row))

\* a run that delivered its list although a connect raised in one task, next to a
\* sibling whose commands ran
C5_Witness ==
    /\ finished_log # <<>>
    /\ N >= 2
    /\ self.kind = "exec"
    /\ \E k \in 1..N : Contains(finished_log[1][k].cmd_result, "SSH ERR: ")
    /\ \E k \in 1..N : finished_log[1][k].cmd_result = <<"out">>

\* C6: never more than max_workers tasks between their start and their return
C6_AtMostPoolRunning == Cardinality(Running) <= max_workers

\* the pool is full and a submitted task waits for a thread
C6_Witness ==
    /\ Cardinality(Running) = max_workers
    /\ \E j \in 1..N : tasks[j].pc = "queued"

\* C7: the values emitted are 1, 2, ... up to N, one per collected future, and a
\* value is emitted after its row was stored: it is the number of populated slots
C7_ProgressCountsStoredRows ==
    /\ [](/\ progress_log = UpTo(Len(progress_log))
          /\ Len(progress_log) <= N
          /\ Len(progress_log) = IF run_pc = "emit" THEN Cardinality(yielded) - 1
                                 ELSE Cardinality(yielded)
          /\ finished_log # <<>> => Len(progress_log) = N)
    /\ [][progress_log' # progress_log =>
              /\ progress_log' = Append(progress_log, Cardinality(Populated))
              /\ results' = results]_vars

\* the last value of the longest batch has been emitted
C7_Witness == Len(progress_log) = MaxHosts /\ progress_log[MaxHosts] = MaxHosts

\* C8: finished is emitted at most once, after every task returned and was collected
\* and after the value N was emitted; afterwards nothing runs and nothing is emitted
C8_FinishedOnceAtTheEnd ==
    /\ [](/\ Len(finished_log) <= 1
          /\ (run_pc = "done") = (finished_log # <<>>)
          /\ finished_log # <<>> =>
                /\ \A j \in 1..N : tasks[j].pc = "collected"
                /\ Running = {}
                /\ progress_log = UpTo(N)
                /\ finished_log[1] = results)
    /\ [][finished_log # <<>> =>
              /\ progress_log' = progress_log
              /\ finished_log' = finished_log
              /\ tasks' = tasks]_vars

\* finished was emitted for a batch longer than the pool
C8_Witness == Len(finished_log) = 1 /\ N > max_workers /\ run_pc = "done"

\* the arguments the selection hands to generate_credentials, one per member
Members(s) ==
    IF s.radio = "range"
    THEN RangeArgs(IntOfText(Strip(s.range_from)).n, IntOfText(Strip(s.range_to)).n)
    ELSE Items(s.list_edit)

\* a selection whose every member is an integer
ValidSelection(s) ==
    /\ s.radio \in {"range", "list"}
    /\ s.radio = "range" =>
          /\ IntOfText(s.range_from).ok /\ IntOfText(s.range_to).ok
          /\ IntOfText(s.range_from).n <= IntOfText(s.range_to).n
    /\ s.radio = "list" => Items(s.list_edit) # <<>>
    /\ \A k \in 1..Len(Members(s)) : int(Members(s)[k]).ok

RECURSIVE DescriptorCount(_)
DescriptorCount(args) ==
    IF args = <<>> THEN 0
    ELSE Len(generate_credentials(Head(args)).value) + DescriptorCount(Tail(args))

RECURSIVE Descriptors(_)
Descriptors(args) ==
    IF args = <<>> THEN <<>>
    ELSE LET v == generate_credentials(Head(args)).value
         IN  [k \in 1..Len(v) |-> HostInfo(v[k])] \o Descriptors(Tail(args))

\* C9 as stated: the batch built for a valid selection holds every descriptor
\* generate_credentials returns for every member, in order, each as its own entry
C9_BatchHoldsEveryDescriptor ==
    ui # None /\ ValidSelection(sel) =>
        /\ Len(ui.host_infos) = DescriptorCount(Members(sel))
        /\ ui.host_infos = Descriptors(Members(sel))

Width(n) ==
    (IF n < 0 THEN 1 ELSE 0)
    + (IF Abs(n) < 10 THEN 1 ELSE IF Abs(n) < 100 THEN 2 ELSE IF Abs(n) < 1000 THEN 3 ELSE 4)

\* text is a minus sign for a negative n and then decimal digits of value |n|
ReadsAs(text, n) ==
    LET ds == IF n < 0 /\ text # <<>> THEN Tail(text) ELSE text
    IN  /\ n < 0 => text # <<>> /\ Head(text) = "-"
        /\ AllDigits(ds)
        /\ NatOf(ds) = Abs(n)

\* the bare form of n: no padding
IsBare(text, n) == ReadsAs(text, n) /\ Len(text) = Width(n)
\* the zero-padded form of n of width at least 3
IsPadded(text, n) ==
    ReadsAs(text, n) /\ Len(text) = (IF Width(n) < 3 THEN 3 ELSE Width(n))

Inner(text, before, after) ==
    SubSeq(text, Len(before) + 1, Len(text) - Len(after))
Wraps(text, before, after) ==
    /\ Len(text) >= Len(before) + Len(after)
    /\ SubSeq(text, 1, Len(before)) = before
    /\ SubSeq(text, Len(text) - Len(after) + 1, Len(text)) = after

PaddedHost(h, n) ==
    Wraps(h, Chars_css01sth, Chars_ts01) /\ IsPadded(Inner(h, Chars_css01sth, Chars_ts01), n)
BareHost(h, n) ==
    Wraps(h, Chars_css01sth, Chars_ts01) /\ IsBare(Inner(h, Chars_css01sth, Chars_ts01), n)

\* C10: for an integer id, one descriptor with the padded hostname for 1..9, the
\* padded and then the bare hostname for 10..99, one with the bare hostname for
\* any other id; username and password always carry the padded form
C10_DescriptorsOfAnId ==
    creds # None /\ num.kind = "int" =>
        LET n == num.val
            v == creds.value
        IN  /\ ~creds.raised
            /\ 1 <= n /\ n <= 9 => Len(v) = 1 /\ PaddedHost(v[1][1], n)
            /\ 10 <= n /\ n <= 99 =>
                  Len(v) = 2 /\ PaddedHost(v[1][1], n) /\ BareHost(v[2][1], n)
            /\ n < 1 \/ n > 99 => Len(v) = 1 /\ BareHost(v[1][1], n)
            /\ \A k \in 1..Len(v) :
                  /\ Len(v[k]) = 3
                  /\ Wraps(v[k][2], Chars_uss01sth, Chars_ts01)
                  /\ IsPadded(Inner(v[k][2], Chars_uss01sth, Chars_ts01), n)
                  /\ Wraps(v[k][3], Chars_sthTS, <<>>)
                  /\ IsPadded(Inner(v[k][3], Chars_sthTS, <<>>), n)

\* the credentials of a negative id have been derived
C10_Witness ==
    /\ creds # None
    /\ num = IntArg(-5)
    /\ creds.value[1][1] = Chars_css01sth \o <<"-", "5">> \o Chars_ts01
    /\ creds.value[1][2] = Chars_uss01sth \o <<"-", "0", "5">> \o Chars_ts01

\* the handler left no trace of a run: no worker object, no task, no probe or
\* session call, no progress and no finished signal
NothingStarted ==
    /\ ui.worker = None
    /\ run_pc = "idle"
    /\ tasks = <<>>
    /\ results = <<>>
    /\ progress_log = <<>>
    /\ finished_log = <<>>
    /\ shown = None

\* C11: for a selection that is not valid (a member that is no integer, an empty
\* range field or list, from > to, no radio button) the handler ends with an error,
\* the message box of show_error or the ValueError of int() leaving the handler,
\* and nothing of a run exists: an empty field or a reversed range is reported by
\* show_error with nothing appended to the batch
C11_InvalidSelectionStartsNothing ==
    ui # None /\ ~ValidSelection(sel) =>
        /\ ui.status \in {"input_error", "raised"}
        /\ NothingStarted
        /\ ui.status = "input_error" => ui.message # "" /\ ui.host_infos = <<>>
        /\ sel.radio = "range" => ui.host_infos = <<>>

\* the three kinds of invalid selection have been handled: a reversed range was
\* reported (its fields are cleared), as was a list of blanks
C11_Witness ==
    /\ ui # None
    /\ ui.status = "input_error"
    /\ ui.message = "From value must be less than or equal to To value!"
    /\ sel.range_from = <<>> /\ sel.range_to = <<>>
    /\ NothingStarted

\* the members of a range given by its two ends
InsideOneToNine(s) ==
    /\ s.radio = "range"
    /\ IntOfText(s.range_from).ok /\ IntOfText(s.range_to).ok
    /\ 1 <= IntOfText(s.range_from).n
    /\ IntOfText(s.range_from).n <= IntOfText(s.range_to).n
    /\ IntOfText(s.range_to).n <= 9

\* C12 as stated, up to the start of the run: a scan requested for a range inside
\* 1..9 starts a worker over one descriptor per id, the padded hostname of each id
\* in the order of the range
C12_ScanOfRangeHasOneTaskPerId ==
    ui # None /\ ui.handler = "scan" /\ InsideOneToNine(sel) =>
        /\ ui.status = "started"
        /\ ui.worker # None
        /\ Len(ui.host_infos) = IntOfText(sel.range_to).n - IntOfText(sel.range_from).n + 1
        /\ \A k \in 1..Len(ui.host_infos) :
              PaddedHost(ui.host_infos[k].hostname, IntOfText(sel.range_from).n + k - 1)

\* the one-to-one maps of 1..n onto itself
Rearrangements(n) == {p \in [1..n -> 1..n] : \A a, b \in 1..n : p[a] = p[b] => a = b}

\* C13: the table shown is the result list rearranged, every row of a pingable
\* host before every row of a host that is not, host names ascending within either
\* group; the result list itself still holds row k of descriptor k
C13_PresentationOrder ==
    shown # None /\ ~shown.raised =>
        LET t == shown.table
            r == finished_log[1]
        IN  /\ Len(t) = Len(r)
            /\ \E p \in Rearrangements(Len(r)) :
                  \A k \in 1..Len(r) :
                      /\ t[k].hostname = r[p[k]].hostname
                      /\ t[k].pingable = (IF r[p[k]].pingable THEN "Yes" ELSE "No")
                      /\ t[k].result = Outcome(r[p[k]])
            /\ \A a, b \in 1..Len(t) :
                  a < b => /\ t[a].pingable = "No" => t[b].pingable = "No"
                           /\ t[a].pingable = t[b].pingable =>
                                 ~StrLess(t[b].hostname, t[a].hostname)
            /\ results = r
            /\ \A k \in 1..N : results[k].hostname = self.host_infos[k].hostname

\* the last descriptor's row is shown first and a pingable row stands above a row
\* that is not pingable although it was submitted behind it
C13_Witness ==
    /\ shown # None
    /\ N = MaxHosts
    /\ shown.table[1].hostname = self.host_infos[N].hostname
    /\ shown.table[1].hostname # self.host_infos[1].hostname
    /\ shown.table[1].pingable = "Yes"
    /\ shown.table[2].pingable = "Yes"
    /\ shown.table[N].pingable = "No"
    /\ ~finished_log[1][1].pingable

\* C14: an export that returned a path wrote the header and then one row per
\* result, row k of the file's data rows being descriptor k's
C14_ExportRowPerResult ==
    shown # None /\ shown.csv_path # None =>
        LET r == finished_log[1]
        IN  /\ self.kind = "scan"
            /\ Len(shown.file) = Len(r) + 1
            /\ Len(r) = N
            /\ shown.file[1] = CsvHeader
            /\ \A k \in 1..N :
                  /\ shown.file[k + 1][1] = self.host_infos[k].hostname
                  /\ shown.file[k + 1][1] = r[k].hostname
                  /\ shown.file[k + 1][2] = r[k].username
                  /\ shown.file[k + 1][3] = r[k].password
                  /\ shown.file[k + 1][4] = (IF r[k].pingable THEN "Yes" ELSE "No")

\* a file of the longest batch whose rows stand in another order than the table's
C14_Witness ==
    /\ shown # None
    /\ shown.csv_path # None
    /\ N = MaxHosts
    /\ Len(shown.file) = MaxHosts + 1
    /\ shown.table[1].hostname # shown.file[2][1]

\* text begins with the piece
Begins(text, piece) == text # <<>> /\ text[1] = piece

\* C15: a written row says ssh_able "Yes" exactly for a pingable host whose outcome
\* is not empty, is no "SSH Error:" or "Error:" text and is not "Unreachable"; a
\* host that is not pingable and a host whose session failed are written with "No"
C15_SshAbleColumn ==
    shown # None =>
        \A k \in 1..(Len(shown.file) - 1) :
            LET r == finished_log[1][k]
                cell == shown.file[k + 1][5]
            IN  /\ cell \in {"Yes", "No"}
                /\ cell = "Yes" <=> /\ r.pingable
                                    /\ r.scan_result # <<>>
                                    /\ ~Begins(r.scan_result, "SSH Error: ")
                                    /\ ~Begins(r.scan_result, "Error: ")
                                    /\ r.scan_result # Unreachable
                /\ ~r.pingable => cell = "No"
                /\ Contains(r.scan_result, "SSH Error: ") => cell = "No"
                /\ r.scan_result \in {Unreachable, PingError} => cell = "No"

\* a file with the row of a host that answered and the row of a host whose session
\* failed
C15_Witness ==
    /\ shown # None
    /\ shown.csv_path # None
    /\ \E k \in 1..N : shown.file[k + 1][5] = "Yes"
    /\ \E k \in 1..N : /\ finished_log[1][k].scan_result = ScanSshError
                        /\ shown.file[k + 1][4] = "Yes"
                        /\ shown.file[k + 1][5] = "No"

\* C16: whatever the file system does to the export, the slot does not raise; a
\* failed export returns no path, the warning is shown, the table is filled with
\* every row, and the result list is what the worker delivered
C16_ExportFailureIsSoft ==
    /\ [](shown # None /\ self.kind = "scan" =>
            /\ ~shown.raised
            /\ shown.io # "no" <=> shown.csv_path = None
            /\ shown.csv_path = None <=> shown.box = "warning"
            /\ shown.csv_path # None <=> shown.box = "information"
            /\ Len(shown.table) = N
            /\ \A k \in 1..N : \E j \in 1..N :
                  shown.table[k].hostname = finished_log[1][j].hostname
            /\ results = finished_log[1]
            /\ \A k \in 1..N : results[k] # None)
    /\ [][shown' # shown => results' = results /\ finished_log' = finished_log]_vars

\* an export that broke off after the header, and the full table is shown
C16_Witness ==
    /\ shown # None
    /\ shown.io = "writerow"
    /\ Len(shown.file) = 1
    /\ shown.box = "warning"
    /\ Len(shown.table) = MaxHosts

\* the blocking network calls: the probe, the session connect, exec and transfer
NetworkCalls == {"ping", "connect", "open_sftp", "exec", "mkdir", "upload"}

\* C17 as stated: once the stop is signalled no task begins another blocking
\* network call and no further progress value is emitted
C17_StopHaltsCallsAndProgress ==
    [][interruption_requested =>
          /\ \A j \in 1..N :
                Len(tasks'[j].trace) > Len(tasks[j].trace) =>
                    tasks'[j].trace[Len(tasks'[j].trace)] \notin NetworkCalls
          /\ progress_log' = progress_log]_vars

\* the pipeline state of a task
Stage(t) ==
    CASE t.pc \in {"unsubmitted", "queued"} -> "INIT"
      [] t.pc = "ping" -> "PING"
      [] t.pc \in {"copy_connect", "copy_sftp", "copy_mkdir", "copy_upload",
                   "copy_cleanup"} -> "DEPLOY"
      [] t.pc \in {"ssh_connect", "ssh_exec", "ssh_close"} -> "COMMANDS"
      [] OTHER -> "DONE"

runDeploy == self.kind = "exec" /\ self.do_builtin
runCommands == self.kind = "scan" \/ self.do_custom

\* the moves of the pipeline from one state to another
PipelineMove(from, to, t) ==
    \/ from = "INIT" /\ to = "PING"
    \/ from = "PING" /\ to = "DONE" /\ t.probe # "true"
    \/ from = "PING" /\ to = "DEPLOY" /\ t.probe = "true" /\ runDeploy
    \/ from = "PING" /\ to = "COMMANDS" /\ t.probe = "true" /\ ~runDeploy /\ runCommands
    \/ from = "DEPLOY" /\ to = "COMMANDS" /\ runCommands
    \/ from = "DEPLOY" /\ to = "DONE" /\ ~runCommands
    \/ from = "COMMANDS" /\ to = "DONE"

\* C18: a task only moves INIT -> PING -> DONE (not reachable), PING -> DEPLOY
\* when the copy is requested, else PING -> COMMANDS, DEPLOY -> COMMANDS when
\* commands are requested, else DEPLOY -> DONE, COMMANDS -> DONE; the probe is its
\* first call and is made once, each step connects once, and when the command step
\* begins the copy's handles have been closed
C18_PipelineIsSequential ==
    /\ [](\A j \in Visible :
            LET t == tasks[j]
            IN  /\ Count(t.trace, "ping") <= 1
                /\ Len(t.trace) >= 2 => t.trace[2] = "ping"
                /\ Count(t.trace, "connect") <=
                      (IF runDeploy THEN 1 ELSE 0) + (IF runCommands THEN 1 ELSE 0)
                /\ Count(t.trace, "open_sftp") <= 1
                /\ Count(t.trace, "upload") <= 1
                /\ Count(t.trace, "exec") <=
                      (IF runDeploy THEN 1 ELSE 0)
                      + (IF self.kind = "scan" THEN 1 ELSE Len(Commands(self.custom_cmd)))
                /\ Stage(t) = "DEPLOY" => runDeploy /\ t.custom_result = NoneText
                /\ Stage(t) = "COMMANDS" =>
                      /\ runCommands
                      /\ runDeploy => /\ t.builtin_result # NoneText
                                      /\ t.sftp # "open"
                                      /\ Count(t.trace, "close") >= 1
                /\ t.pc = "ssh_connect" => t.ssh # "open")
    /\ [][\A j \in 1..N :
             Stage(tasks'[j]) # Stage(tasks[j]) /\ tasks'[j].pc # "collected" =>
                 PipelineMove(Stage(tasks[j]), Stage(tasks'[j]), tasks'[j])]_vars

\* a task in its command step whose copy step is over, with both sessions made
C18_Witness ==
    \E j \in 1..N :
        /\ tasks[j].pc = "ssh_close"
        /\ self.do_builtin /\ self.do_custom
        /\ tasks[j].builtin_result = FileCopied
        /\ Count(tasks[j].trace, "connect") = 2
        /\ Count(tasks[j].trace, "exec") = 3

\* C19: a task that returned has called close() on every session and sftp channel
\* it made, whatever raised on the way, and the copy's handles are closed before
\* the command step connects
C19_SessionsClosedOnReturn ==
    \A j \in Visible :
        LET t == tasks[j]
        IN  /\ t.pc \in {"returned", "ssh_connect"} =>
                  /\ t.ssh \in {"none", "closed"}
                  /\ t.sftp \in {"none", "closed"}
                  /\ Count(t.trace, "close") = Count(t.trace, "connect")
                  /\ Count(t.trace, "close_sftp") = (IF t.sftp = "closed" THEN 1 ELSE 0)
                  /\ t.sftp = "closed" => Has(t.trace, {"open_sftp"})
            /\ t.pc = "returned" /\ t.probe = "true" /\ (runDeploy \/ runCommands) =>
                  t.ssh = "closed"

\* a returned task whose sftp close raised after a transfer that raised, and whose
\* session was closed all the same
C19_Witness ==
    \E j \in 1..N :
        /\ tasks[j].pc = "returned"
        /\ tasks[j].sftp = "closed"
        /\ tasks[j].ssh = "closed"
        /\ Count(tasks[j].caught, "close") >= 1
        /\ Count(tasks[j].caught, "copy") = 1
        /\ tasks[j].trace[Len(tasks[j].trace)] = "close"
        /\ tasks[j].trace[Len(tasks[j].trace) - 1] = "close_sftp"

Separator == <<"\n---\n">>

\* C20: with the copy and the commands requested for a pingable host, the copy's
\* outcome, a failure included, is the first part of the row's text and the
\* command step was still made: it connected and its outcome is the second part
C20_CommandsRunAfterFailedCopy ==
    /\ [](\A j \in Visible :
            LET t == tasks[j]
            IN  t.pc = "returned" /\ t.probe = "true" /\ runDeploy /\ self.do_custom =>
                  /\ Count(t.trace, "connect") = 2
                  /\ t.custom_result # NoneText
                  /\ t.row.cmd_result = t.builtin_result \o Separator \o t.custom_result
                  /\ Count(t.caught, "copy") >= 1 => t.builtin_result = CopyFailed
                  /\ Count(t.caught, "copy") = 0 /\ self.local_path = "missing" =>
                        t.builtin_result = LocalPathMissing)
    /\ [][\A j \in 1..N :
             tasks[j].pc = "copy_cleanup" /\ self.do_custom /\ tasks'[j] # tasks[j] =>
                 /\ tasks'[j].pc = "ssh_connect"
                 /\ tasks'[j].builtin_result = tasks[j].builtin_result]_vars

\* a returned row whose copy failed to connect and whose command gave its output
C20_Witness ==
    \E j \in 1..N :
        /\ tasks[j].pc = "returned"
        /\ self.do_builtin /\ self.do_custom
        /\ tasks[j].builtin_result = CopyFailed
        /\ tasks[j].row.cmd_result = CopyFailed \o Separator \o <<"out">>

\* the texts the copy step can end with
DeployOutcomes == {FileCopied, FolderCopied, LocalPathMissing, CopyFailed}

\* C21: the text of a pingable host's row is the copy's outcome, the line "---"
\* between two newlines and the commands' outcome when both steps were made, and
\* the outcome of the one step made otherwise, whether or not a step failed
C21_CombinedOutcome ==
    \A j \in Visible :
        LET t == tasks[j]
        IN  t.pc = "returned" /\ self.kind = "exec" /\ t.probe = "true" =>
              /\ t.row.pingable
              /\ self.do_builtin => t.builtin_result \in DeployOutcomes
              /\ self.do_custom => t.custom_result # NoneText
              /\ self.do_builtin /\ self.do_custom =>
                    /\ t.row.cmd_result =
                          t.builtin_result \o <<"\n---\n">> \o t.custom_result
                    /\ Count(t.row.cmd_result, "\n---\n") = 1
              /\ self.do_builtin /\ ~self.do_custom =>
                    t.row.cmd_result = t.builtin_result
              /\ ~self.do_builtin /\ self.do_custom =>
                    t.row.cmd_result = t.custom_result

\* a row made of two failures: no local path to copy, and a session that failed
C21_Witness ==
    \E j \in 1..N :
        /\ self.kind = "exec"
        /\ tasks[j].pc = "returned"
        /\ tasks[j].row.pingable
        /\ tasks[j].row.cmd_result = LocalPathMissing \o <<"\n---\n">> \o SshErr

\* text holds something besides blanks
NotBlank(text) == \E k \in 1..Len(text) : text[k] # " "

\* C22: the commands are handed to exec_command one after another in the order
\* of the command list, each once, on the session the step opened; each command
\* that was executed has its own line, in the same order, "ERR: " and the standard
\* error when that is not empty, the trimmed standard output otherwise; and after a
\* command with standard error the next command is executed
C22_OneLinePerCommandInOrder ==
    /\ [](\A j \in Visible :
            LET t == tasks[j]
                cmds == Commands(self.custom_cmd)
            IN  self.kind = "exec" =>
                  /\ Len(t.ran) <= Len(cmds)
                  /\ \A k \in 1..Len(t.ran) : t.ran[k].cmd = cmds[k]
                  /\ \A k \in 1..Len(t.ran) : t.ran[k].raised => k = Len(t.ran)
                  /\ Len(t.cmd_results) <= Len(t.ran)
                  /\ \A k \in 1..Len(t.cmd_results) :
                        /\ ~t.ran[k].raised
                        /\ NotBlank(t.ran[k].stderr) =>
                              t.cmd_results[k] = <<"ERR: ", "err">>
                        /\ ~NotBlank(t.ran[k].stderr) => t.cmd_results[k] = <<"out">>
                  /\ t.pc = "ssh_exec" => t.ssh = "open" /\ Len(t.ran) < Len(cmds)
                  /\ t.ran # <<>> => Count(t.trace, "connect") = 1 + (IF runDeploy THEN 1 ELSE 0)
                  /\ t.pc = "returned" /\ t.probe = "true" /\ self.do_custom
                        /\ Count(t.caught, "ssh") = 0 =>
                          /\ Len(t.cmd_results) = Len(cmds)
                          /\ t.custom_result = Join(t.cmd_results))
    /\ [][\A j \in 1..N :
             /\ self.kind = "exec"
             /\ tasks[j].pc = "ssh_exec"
             /\ Len(tasks'[j].ran) > Len(tasks[j].ran)
             /\ NotBlank(tasks'[j].ran[Len(tasks'[j].ran)].stderr)
             /\ Len(tasks'[j].ran) < Len(Commands(self.custom_cmd))
             => /\ tasks'[j].pc = "ssh_exec"
                /\ tasks'[j].ssh = "open"]_vars

\* two commands, the first with standard error, the second with its output
C22_Witness ==
    \E j \in 1..N :
        /\ self.kind = "exec"
        /\ tasks[j].pc = "returned"
        /\ Len(tasks[j].ran) = 2
        /\ tasks[j].ran[1].cmd = <<"l", "s">> /\ tasks[j].ran[2].cmd = <<"c", "d">>
        /\ tasks[j].custom_result = <<"ERR: ", "err", "\n", "out">>

\* C23: when the connect or an exec of the command step raised, the step's
\* outcome is "SSH ERR: " and the message and nothing else: no line of a command
\* executed before, no command executed after the one that raised, and the row
\* still says pingable
C23_SessionFailureIsWholeStepOutcome ==
    /\ [](\A j \in Visible :
            LET t == tasks[j]
            IN  self.kind = "exec" /\ Count(t.caught, "ssh") >= 1 =>
                  /\ Count(t.caught, "ssh") = 1
                  /\ t.custom_result = SshErr
                  /\ ~Contains(t.custom_result, "out")
                  /\ ~Contains(t.custom_result, "ERR: ")
                  /\ t.ran = <<>> \/ t.ran[Len(t.ran)].raised
                  /\ t.ran = <<>> => t.cmd_results = <<>>
                  /\ t.ran # <<>> => Len(t.cmd_results) = Len(t.ran) - 1
                  /\ t.pc \in {"ssh_close", "returned"}
                  /\ t.row.pingable
                  /\ t.pc = "returned" =>
                        t.row.cmd_result =
                            (IF self.do_builtin
                             THEN t.builtin_result \o <<"\n---\n">> \o SshErr
                             ELSE SshErr))
    /\ [][\A j \in 1..N :
             self.kind = "exec" /\ Count(tasks[j].caught, "ssh") >= 1 =>
                 IF tasks'[j].pc = "collected" THEN tasks[j].pc = "returned"
                 ELSE tasks'[j].ran = tasks[j].ran /\ tasks'[j].row.pingable]_vars

\* the second of two commands raised after the first had given its output, and
\* the row holds the error alone
C23_Witness ==
    \E j \in 1..N :
        /\ self.kind = "exec"
        /\ tasks[j].pc = "returned"
        /\ Len(tasks[j].ran) = 2
        /\ tasks[j].ran[2].raised
        /\ tasks[j].cmd_results = << <<"out">> >>
        /\ tasks[j].row.cmd_result = SshErr
        /\ tasks[j].row.pingable

\* C24 as stated: a directory that could not be made, for another reason than
\* that it exists, shows as a failure in the host's outcome text, and one that
\* exists already does not keep the transfer from being made
C24_DirectoryFailureInOutcome ==
    \A j \in Visible :
        LET t == tasks[j]
        IN  self.kind = "exec" /\ t.pc \in {"copy_cleanup", "ssh_connect", "returned"} =>
              /\ "denied" \in t.mkdirs => t.builtin_result = CopyFailed
              /\ t.mkdirs = {"exists"} /\ Count(t.caught, "copy") = 0 =>
                    t.builtin_result = FolderCopied

\* the tasks that hold a connected session
OpenSessions == {j \in 1..N : tasks[j].ssh = "open"}

\* C25: a session is held by a task that is running, its sftp channel with it; a
\* task has closed one session before it connects the next, so there are never
\* more open sessions than running tasks; and a step of one task leaves the
\* sessions and the locals of every other task alone
C25_SessionsAreTaskOwned ==
    /\ [](/\ OpenSessions \subseteq Running
          /\ Cardinality(OpenSessions) <= Cardinality(Running)
          /\ Cardinality(OpenSessions) <= max_workers
          /\ \A j \in Visible :
                LET t == tasks[j]
                IN  /\ t.sftp = "open" => t.ssh = "open"
                    /\ \A a, b \in 1..Len(t.trace) :
                          a < b /\ t.trace[a] = "connect" /\ t.trace[b] = "connect" =>
                              \E c \in (a + 1)..(b - 1) : t.trace[c] = "close"
                    /\ \A a \in 1..Len(t.trace) :
                          t.trace[a] \in {"exec", "open_sftp", "upload", "mkdir"} =>
                              \E c \in 1..(a - 1) :
                                  /\ t.trace[c] = "connect"
                                  /\ \A d \in (c + 1)..(a - 1) : t.trace[d] # "close")
    /\ [][\A j, k \in 1..N :
             j # k /\ tasks'[j] # tasks[j] => tasks'[k] = tasks[k]]_vars

\* as many sessions are open at once as the pool has threads
C25_Witness ==
    /\ Cardinality(OpenSessions) = max_workers
    /\ \E j \in OpenSessions : tasks[j].pc = "ssh_close"
    /\ \E j \in 1..N : tasks[j].pc = "queued"

\* C26: the run delivers its final list, and a task that waits in the queue of
\* the pool is started, also when the batch is longer than the pool
C26_RunDeliversResults ==
    /\ <>(run_pc = "done" /\ finished_log # <<>>)
    /\ [](run_pc = "done" =>
            /\ Len(progress_log) = N
            /\ \A j \in 1..N : tasks[j].pc = "collected" /\ finished_log[1][j] # None)

\* the list of a batch longer than the pool was delivered and shown, the last
\* descriptor's row in it
C26_Witness ==
    /\ run_pc = "done"
    /\ N > max_workers
    /\ shown # None
    /\ finished_log[1][N] # None
    /\ Len(shown.table) = N

====
